---- MODULE Spec2Model ----
(***************************************************************************)
(* The per-invocation state machine of restate-sdk-go                      *)
(* (internal/state): negotiation, journal replay, replayOrNew, the Call    *)
(* and OneWayCall operations, and the termination logic of Machine.invoke  *)
(* (Spec); the callers of replayOrNew that share m.entryMutex              *)
(* (SharedSpec, and SharedFairSpec under a fair scheduler); calls whose    *)
(* input may fail to encode (CodecSpec); and the deterministic random      *)
(* source of package rand (RandSpec).                                      *)
(***************************************************************************)
EXTENDS Integers, Sequences, FiniteSets, TLC

\* ---------------------------------------------------------------- bounds

\* Largest known-entries count N a Start message announces (the replay
\* journal then holds N-1 entries).
MaxKnown == 3

\* Most journal operations (RequestFuture / Send) one handler run performs.
MaxOps == 3

\* ------------------------------------------------------------- constants

\* errors.ErrJournalMismatch and errors.ErrProtocolViolation, the codes
\* Machine.invoke puts into the ErrorMessage it writes.
ErrJournalMismatch == 570

ErrProtocolViolation == 571

\* The code Machine.invoke gives an unknown panic.
ErrUnknownPanic == 500

\* -------------------------------------------------------------- messages

Nil == [type |-> "nil"]

Services == {"svc", "other"}

Keys == {"", "k"}

Methods == {"m", "n"}

Parameters == {"{}", "[]"}

\* A request: the four discriminators of a Call or OneWayCall.
Requests == [service : Services, key : Keys, method : Methods, params : Parameters]

\* The request the handler of scenario S3 issues.
BaseRequest == [service |-> "svc", key |-> "", method |-> "m", params |-> "{}"]

\* The requests the modelled handler issues.
HandlerRequests == {BaseRequest}

\* The delays the handler passes to Send (0: no delay).
Delays == {0, 5}

\* The wall-clock instants time.Now() yields, in epoch milliseconds.
Clock == {1000}

CallEntryMessage(service, key, method, params) ==
    [type |-> "CallEntryMessage", ServiceName |-> service, HandlerName |-> method,
     Parameter |-> params, Key |-> key]

OneWayCallEntryMessage(service, key, method, params, invokeTime) ==
    [type |-> "OneWayCallEntryMessage", ServiceName |-> service, HandlerName |-> method,
     Parameter |-> params, Key |-> key, InvokeTime |-> invokeTime]

OutputEntryValue(bytes) ==
    [type |-> "OutputEntryMessage", result |-> "value", Value |-> bytes]

OutputEntryFailure(code, message) ==
    [type |-> "OutputEntryMessage", result |-> "failure", Code |-> code, Message |-> message]

EndMessage == [type |-> "EndMessage"]

SuspensionMessage(entryIndexes) ==
    [type |-> "SuspensionMessage", EntryIndexes |-> entryIndexes]

StartMessage(knownEntries) == [type |-> "StartMessage", KnownEntries |-> knownEntries]

InputEntryMessage == [type |-> "InputEntryMessage", Value |-> "in"]

SetStateEntryMessage == [type |-> "SetStateEntryMessage"]

\* The typed nil message `var expectedEntry M` of a tag mismatch.
ZeroEntry(M) == [type |-> M, isNil |-> TRUE]

\* The requests of the Call entries the runtime replays: the handler's, and
\* ones that differ from it in the service or in the key.
CallReplayRequests ==
    {BaseRequest, [BaseRequest EXCEPT !.service = "other"], [BaseRequest EXCEPT !.key = "k"]}

\* The requests of the OneWayCall entries the runtime replays: the handler's,
\* and ones that differ from it in the method or in the parameter bytes.
OneWayReplayRequests ==
    {BaseRequest, [BaseRequest EXCEPT !.method = "n"], [BaseRequest EXCEPT !.params = "[]"]}

\* The journal entries the runtime replays to the SDK.
ReplayMessages ==
    {CallEntryMessage(r.service, r.key, r.method, r.params) : r \in CallReplayRequests}
    \cup {OneWayCallEntryMessage(r.service, r.key, r.method, r.params, 0) :
             r \in OneWayReplayRequests}
    \cup {OutputEntryValue("done"), SetStateEntryMessage}

\* The frames a first or second read can yield.
NegotiationFrames ==
    {StartMessage(n) : n \in 1..MaxKnown}
    \cup {InputEntryMessage, OutputEntryValue("done"), SetStateEntryMessage}

\* ---------------------------------------------------------------- errors

NilErr == [name |-> "nil"]

EOF == [name |-> "EOF", code |-> 500]

TransportErr == [name |-> "transport", code |-> 500]

Canceled == [name |-> "context canceled", code |-> 500]

\* The errors a handler returns.
HandlerErrors ==
    {[name |-> "handler", terminal |-> TRUE, code |-> 404, message |-> "not found"],
     [name |-> "handler", terminal |-> FALSE, code |-> 500, message |-> "boom"]}

\* restate.IsTerminalError
IsTerminalError(err) == err.name = "handler" /\ err.terminal

\* restate.ErrorCode
ErrorCode(err) == err.code

\* ----------------------------------------------------------- the machine

\* The Machine fields the journal operations read and write, as one record:
\*   entries     the replay journal (m.entries)
\*   entryIndex  the cursor (m.entryIndex)
\*   failure     the sticky failure (m.failure), Nil when unset
\*   written     the frames handed to m.protocol.Write, in call order
\*   connBroken  whether the transport has failed, so that a write errs
Machine(es, idx, fl, wr, cb) ==
    [entries |-> es, entryIndex |-> idx, failure |-> fl, written |-> wr, connBroken |-> cb]

\* wire.Protocol.Write: hands the frame to the transport; errs when the
\* transport has failed.
protocolWrite(m, msg) ==
    [m |-> [m EXCEPT !.written = Append(@, msg)],
     err |-> IF m.connBroken THEN TransportErr ELSE NilErr]

\* Machine.newEntryMismatch: builds the failure of a journal mismatch, at the
\* cursor, and latches it.
newEntryMismatch(m, expectedEntry, actualEntry) ==
    LET e == [kind |-> "entryMismatch", entryIndex |-> m.entryIndex,
              expectedEntry |-> expectedEntry, actualEntry |-> actualEntry]
    IN  [m |-> [m EXCEPT !.failure = e], e |-> e]

\* Machine.newWriteError: builds the failure of an entry write, and latches it.
newWriteError(m, entry, err) ==
    LET e == [kind |-> "writeError", entryIndex |-> m.entryIndex, entry |-> entry, err |-> err]
    IN  [m |-> [m EXCEPT !.failure = e], e |-> e]

\* Machine.Write: writes a new entry's frame, raising a writeError when the
\* codec errs.
Write(m, msg) ==
    LET w == protocolWrite(m, msg)
    IN  IF w.err # NilErr
        THEN LET f == newWriteError(w.m, msg, w.err) IN [m |-> f.m, panic |-> f.e]
        ELSE [m |-> w.m, panic |-> Nil]

\* A variant of currentEntry that stops one entry short of the journal's end.
currentEntryShort(c) ==
    IF c.entryIndex < Len(c.entries)
    THEN [entry |-> c.entries[c.entryIndex], ok |-> TRUE]
    ELSE [entry |-> Nil, ok |-> FALSE]

\* Machine.currentEntry
currentEntry(c) ==
    IF c.entryIndex <= Len(c.entries)
    THEN [entry |-> c.entries[c.entryIndex], ok |-> TRUE]
    ELSE [entry |-> Nil, ok |-> FALSE]

\* Machine._doCall: the `new` callback of doCall.
_doCall(m, service, key, method, params) ==
    LET msg == CallEntryMessage(service, key, method, params)
        w == Write(m, msg)
    IN  [m |-> w.m, panic |-> w.panic, out |-> msg]

\* Machine._sendCall: the `new` callback of sendCall. now is what time.Now()
\* yields.
_sendCall(c, service, key, method, params, delay, now) ==
    LET invokeTime == IF delay # 0 THEN now + delay ELSE 0
        w == Write(c, OneWayCallEntryMessage(service, key, method, params, invokeTime))
    IN  [m |-> w.m, panic |-> w.panic, out |-> Nil]

\* A variant of differs that forgets the key.
differsButKey(entry, service, key, method, params) ==
    \/ entry.ServiceName # service
    \/ entry.HandlerName # method
    \/ entry.Parameter # params

\* Whether a replayed Call or OneWayCall entry differs from the operation's
\* arguments (the condition of both replay callbacks).
differs(entry, service, key, method, params) ==
    \/ entry.ServiceName # service
    \/ entry.Key # key
    \/ entry.HandlerName # method
    \/ entry.Parameter # params

\* The `replay` callback of doCall.
doCallReplay(m, entry, service, key, method, params) ==
    IF differs(entry, service, key, method, params)
    THEN LET f == newEntryMismatch(m, CallEntryMessage(service, key, method, params), entry)
         IN  [m |-> f.m, panic |-> f.e, out |-> Nil]
    ELSE [m |-> m, panic |-> Nil, out |-> entry]

\* The `replay` callback of sendCall.
sendCallReplay(m, entry, service, key, method, body) ==
    IF differs(entry, service, key, method, body)
    THEN LET f == newEntryMismatch(m, [type |-> "OneWayCallEntryMessage",
                                       ServiceName |-> service, HandlerName |-> method,
                                       Parameter |-> body, Key |-> key], entry)
         IN  [m |-> f.m, panic |-> f.e, out |-> Nil]
    ELSE [m |-> m, panic |-> Nil, out |-> Nil]

\* An operation as replayOrNew sees it: the message type M it expects and the
\* arguments its two callbacks close over.
CallOp(r) == [M |-> "CallEntryMessage", req |-> r, delay |-> 0, now |-> 0]

SendOp(r, delay, now) == [M |-> "OneWayCallEntryMessage", req |-> r, delay |-> delay, now |-> now]

\* replayOrNew's `replay` argument, by operation.
replay(m, op, entry) ==
    IF op.M = "CallEntryMessage"
    THEN doCallReplay(m, entry, op.req.service, op.req.key, op.req.method, op.req.params)
    ELSE sendCallReplay(m, entry, op.req.service, op.req.key, op.req.method, op.req.params)

\* replayOrNew's `new` argument, by operation.
new(m, op) ==
    IF op.M = "CallEntryMessage"
    THEN _doCall(m, op.req.service, op.req.key, op.req.method, op.req.params)
    ELSE _sendCall(m, op.req.service, op.req.key, op.req.method, op.req.params, op.delay, op.now)

\* A variant of poisoned that never finds the machine failed.
poisonedNever(m) == FALSE

\* replayOrNew's first test: the machine holds a sticky failure.
poisoned(m) == m.failure # Nil

\* A variant of advance that skips an index.
advanceTwice(m) == [m EXCEPT !.entryIndex = @ + 2]

\* replayOrNew's m.entryIndex += 1.
advance(m) == [m EXCEPT !.entryIndex = @ + 1]

\* replayOrNew once the cursor is advanced: the entry at the cursor is
\* replayed, after the check of its type, or, with no entry there, a new one
\* is made.
replayOrNewAtCursor(m1, op) ==
    LET cur == currentEntry(m1)
    IN  IF cur.ok
        THEN IF cur.entry.type # op.M
             THEN LET f == newEntryMismatch(m1, ZeroEntry(op.M), cur.entry)
                  IN  [m |-> f.m, panic |-> f.e, out |-> Nil, entryIndex |-> 0,
                       branch |-> "tag"]
             ELSE LET r == replay(m1, op, cur.entry)
                  IN  [m |-> r.m, panic |-> r.panic, out |-> r.out,
                       entryIndex |-> IF r.panic = Nil THEN r.m.entryIndex ELSE 0,
                       branch |-> "replay"]
        ELSE LET r == new(m1, op)
             IN  [m |-> r.m, panic |-> r.panic, out |-> r.out,
                  entryIndex |-> IF r.panic = Nil THEN r.m.entryIndex ELSE 0,
                  branch |-> "new"]

\* A variant of replayOrNew that increments the cursor before it looks at
\* m.failure.
replayOrNewIncrementFirst(m, op) ==
    IF poisoned(m)
    THEN [m |-> advance(m), panic |-> m.failure, out |-> Nil, entryIndex |-> 0,
          branch |-> "failure"]
    ELSE replayOrNewAtCursor(advance(m), op)

\* replayOrNew, between taking and releasing m.entryMutex. The result holds
\* the machine afterwards, the panic that escapes (Nil: none), the output and
\* entry index returned, and which branch ran.
replayOrNew(m, op) ==
    IF poisoned(m)
    THEN [m |-> m, panic |-> m.failure, out |-> Nil, entryIndex |-> 0, branch |-> "failure"]
    ELSE replayOrNewAtCursor(advance(m), op)

\* The handler's goroutines that share the machine.
Threads == {1, 2}

NoThread == 0

\* A variant of mutexFree for a lock that excludes nobody.
mutexFreeAlways(h) == TRUE

\* m.entryMutex.Lock() returns only while no goroutine holds the mutex.
mutexFree(h) == h = NoThread

\* A variant of unlock that keeps the mutex held.
unlockNever(h, t) == h

\* The deferred m.entryMutex.Unlock() of goroutine t.
unlock(h, t) == IF h = t THEN NoThread ELSE h

\* A variant of NewResponseFuture that registers the future one index late.
NewResponseFutureNext(entryIndex) == entryIndex + 1

\* futures.NewResponseFuture as RequestFuture calls it: the future stands for
\* the entry index doCall returned.
NewResponseFuture(entryIndex) == entryIndex

\* Machine.doCall
doCall(m, service, key, method, params) ==
    replayOrNew(m, CallOp([service |-> service, key |-> key, method |-> method, params |-> params]))

\* Machine.sendCall
sendCall(m, service, key, method, body, delay, now) ==
    replayOrNew(m, SendOp([service |-> service, key |-> key, method |-> method, params |-> body],
                          delay, now))

\* restate.Void{}, the input of a call without a payload.
Void == "Void"

\* The inputs a handler passes to a call: Void, a value the codec encodes,
\* and one it cannot encode (for the JSON codec, a channel).
Inputs == {Void, "obj", "chan"}

\* The inputs the handler of Spec passes: values the codec encodes.
HandlerInputs == {"obj"}

\* encoding.Marshal(codec, input).
Marshal(input) ==
    IF input = "chan"
    THEN [bytes |-> Nil,
          err |-> [name |-> "json", terminal |-> FALSE, code |-> 500,
                   message |-> "unsupported type"]]
    ELSE [bytes |-> "{}", err |-> NilErr]

\* errors.NewTerminalError(fmt.Errorf(text + ": %w", err)).
NewTerminalError(text, err) ==
    [name |-> "handler", terminal |-> TRUE, code |-> 500, message |-> text]

\* What a call that returned err before doCall or sendCall leaves.
returned(m, err) ==
    [m |-> m, panic |-> Nil, out |-> Nil, entryIndex |-> 0, branch |-> "none",
     bytes |-> Nil, err |-> err]

\* A variant of serviceCall.RequestFuture that runs doCall on the bytes it
\* has before it looks at the encoder's error.
serviceCallRequestFutureCallFirst(m, service, key, method, input) ==
    LET enc == IF input # Void THEN Marshal(input) ELSE [bytes |-> "", err |-> NilErr]
        r   == doCall(m, service, key, method, enc.bytes)
    IN  IF enc.err # NilErr
        THEN [returned(r.m, NewTerminalError("failed to marshal RequestFuture input", enc.err))
                 EXCEPT !.panic = r.panic]
        ELSE [m |-> r.m, panic |-> r.panic, out |-> r.out, entryIndex |-> r.entryIndex,
              branch |-> r.branch, bytes |-> enc.bytes, err |-> NilErr]

\* serviceCall.RequestFuture up to the future it builds: the input, unless it
\* is Void, is encoded; a failure to encode is returned as a terminal error
\* before doCall.
serviceCallRequestFuture(m, service, key, method, input) ==
    LET enc == IF input # Void THEN Marshal(input) ELSE [bytes |-> "", err |-> NilErr]
    IN  IF enc.err # NilErr
        THEN returned(m, NewTerminalError("failed to marshal RequestFuture input", enc.err))
        ELSE LET r == doCall(m, service, key, method, enc.bytes)
             IN  [m |-> r.m, panic |-> r.panic, out |-> r.out, entryIndex |-> r.entryIndex,
                  branch |-> r.branch, bytes |-> enc.bytes, err |-> NilErr]

\* serviceCall.Send: the input is encoded; a failure to encode is returned as
\* a terminal error before sendCall.
serviceCallSend(m, service, key, method, input, delay, now) ==
    LET enc == Marshal(input)
    IN  IF enc.err # NilErr
        THEN returned(m, NewTerminalError("failed to marshal Send input", enc.err))
        ELSE LET r == sendCall(m, service, key, method, enc.bytes, delay, now)
             IN  [m |-> r.m, panic |-> r.panic, out |-> r.out, entryIndex |-> r.entryIndex,
                  branch |-> r.branch, bytes |-> enc.bytes, err |-> NilErr]


\* Machine.Start's type assertion msg.(*wire.StartMessage).
isStart(msg) == msg.type = "StartMessage"

\* A variant of isInput that takes any frame for the input.
isInputAny(msg) == TRUE

\* Machine.process's type assertion msg.(*wire.InputEntryMessage).
isInput(msg) == msg.type = "InputEntryMessage"

\* A variant of moreToReplay that leaves the last replayed entry unread.
moreToReplayButLast(es, knownEntries) == Len(es) + 2 < knownEntries

\* The condition of process's replay loop, i < start.KnownEntries, where i is
\* one more than the number of entries read so far.
moreToReplay(es, knownEntries) == Len(es) + 1 < knownEntries

\* ------------------------------------------------------- Machine.invoke

ErrorMessage(code, message) ==
    [type |-> "ErrorMessage", Code |-> code, Message |-> message,
     hasRelatedEntryIndex |-> FALSE, RelatedEntryIndex |-> 0, RelatedEntryType |-> "none"]

ErrorMessageAt(code, message, entryIndex, entryType) ==
    [type |-> "ErrorMessage", Code |-> code, Message |-> message,
     hasRelatedEntryIndex |-> TRUE, RelatedEntryIndex |-> entryIndex,
     RelatedEntryType |-> entryType]

\* A variant of recoveredSuspension that does not look at the cause.
recoveredSuspensionAnyCause(m, recovered, ctxCancelled) ==
    IF ctxCancelled
    THEN m
    ELSE protocolWrite(m, SuspensionMessage(recovered.EntryIndexes)).m

\* A variant of recoveredSuspension that does not look at m.ctx.
recoveredSuspensionUnchecked(m, recovered, ctxCancelled) ==
    IF recovered.Err = EOF
    THEN protocolWrite(m, SuspensionMessage(recovered.EntryIndexes)).m
    ELSE protocolWrite(m, ErrorMessage(ErrorCode(recovered.Err),
                                       "problem reading completions")).m

\* A variant of recoveredSuspension that reports every suspension as an error.
recoveredSuspensionAsError(m, recovered, ctxCancelled) ==
    IF ctxCancelled
    THEN m
    ELSE protocolWrite(m, ErrorMessage(ErrorCode(recovered.Err),
                                       "problem reading completions")).m

\* The *wire.SuspensionPanic case of the deferred function of Machine.invoke.
recoveredSuspension(m, recovered, ctxCancelled) ==
    IF ctxCancelled
    THEN m
    ELSE IF recovered.Err = EOF
         THEN protocolWrite(m, SuspensionMessage(recovered.EntryIndexes)).m
         ELSE protocolWrite(m, ErrorMessage(ErrorCode(recovered.Err),
                                            "problem reading completions")).m

\* A variant of the deferred function that ends the stream after the frame
\* it writes for the panic.
invokeDeferredThenEnd(m, recovered, ctxCancelled) ==
    IF recovered.kind = "SuspensionPanic"
    THEN protocolWrite(recoveredSuspension(m, recovered, ctxCancelled), EndMessage).m
    ELSE protocolWrite(protocolWrite(m, ErrorMessage(ErrUnknownPanic, "panic")).m,
                       EndMessage).m

\* The deferred function of Machine.invoke, run with a panic `recovered`
\* (never Nil here: with no panic the function does nothing). ctxCancelled is
\* m.ctx.Err() != nil. Yields the machine after the frame written.
invokeDeferred(m, recovered, ctxCancelled) ==
    CASE recovered.kind = "entryMismatch" ->
            protocolWrite(m, ErrorMessageAt(ErrJournalMismatch, "Journal mismatch",
                                            recovered.entryIndex,
                                            recovered.actualEntry.type)).m
      [] recovered.kind = "writeError" ->
            protocolWrite(m, ErrorMessageAt(ErrProtocolViolation, recovered.err.name,
                                            recovered.entryIndex, recovered.entry.type)).m
      [] recovered.kind = "sideEffectFailure" ->
            protocolWrite(m, ErrorMessageAt(ErrorCode(recovered.err), recovered.err.message,
                                            recovered.entryIndex, "AwakeableEntryMessage")).m
      [] recovered.kind = "SuspensionPanic" ->
            recoveredSuspension(m, recovered, ctxCancelled)
      [] OTHER ->
            protocolWrite(m, ErrorMessage(ErrUnknownPanic, recovered.value)).m

\* A variant of invokeOutputSeen that writes End twice.
invokeOutputSeenTwice(m) == protocolWrite(protocolWrite(m, EndMessage).m, EndMessage)

\* Machine.invoke when outputSeen: one End frame, and its write's error.
invokeOutputSeen(m) == protocolWrite(m, EndMessage)

\* A variant of invokeReturn that writes the Output frame of a value twice.
invokeReturnOutputTwice(m, bytes, err) ==
    IF err # NilErr /\ IsTerminalError(err)
    THEN LET w == protocolWrite(m, OutputEntryFailure(ErrorCode(err), err.message))
         IN  IF w.err # NilErr THEN w ELSE protocolWrite(w.m, EndMessage)
    ELSE IF err # NilErr
         THEN protocolWrite(m, ErrorMessage(ErrorCode(err), err.message))
         ELSE LET w == protocolWrite(protocolWrite(m, OutputEntryValue(bytes)).m,
                                     OutputEntryValue(bytes))
              IN  IF w.err # NilErr THEN w ELSE protocolWrite(w.m, EndMessage)

\* A variant of invokeReturn that writes End although the Output write failed.
invokeReturnAlwaysEnd(m, bytes, err) ==
    IF err # NilErr /\ IsTerminalError(err)
    THEN protocolWrite(protocolWrite(m, OutputEntryFailure(ErrorCode(err), err.message)).m,
                       EndMessage)
    ELSE IF err # NilErr
         THEN protocolWrite(m, ErrorMessage(ErrorCode(err), err.message))
         ELSE protocolWrite(protocolWrite(m, OutputEntryValue(bytes)).m, EndMessage)

\* A variant of invokeReturn that ends the stream after a non-terminal error.
invokeReturnEndAfterError(m, bytes, err) ==
    IF err # NilErr /\ IsTerminalError(err)
    THEN LET w == protocolWrite(m, OutputEntryFailure(ErrorCode(err), err.message))
         IN  IF w.err # NilErr THEN w ELSE protocolWrite(w.m, EndMessage)
    ELSE IF err # NilErr
         THEN LET w == protocolWrite(m, ErrorMessage(ErrorCode(err), err.message))
              IN  IF w.err # NilErr THEN w ELSE protocolWrite(w.m, EndMessage)
         ELSE LET w == protocolWrite(m, OutputEntryValue(bytes))
              IN  IF w.err # NilErr THEN w ELSE protocolWrite(w.m, EndMessage)

\* Machine.invoke after m.handler.Call returned (bytes, err): the frames
\* written and the error returned.
invokeReturn(m, bytes, err) ==
    IF err # NilErr /\ IsTerminalError(err)
    THEN LET w == protocolWrite(m, OutputEntryFailure(ErrorCode(err), err.message))
         IN  IF w.err # NilErr THEN w ELSE protocolWrite(w.m, EndMessage)
    ELSE IF err # NilErr
         THEN protocolWrite(m, ErrorMessage(ErrorCode(err), err.message))
         ELSE LET w == protocolWrite(m, OutputEntryValue(bytes))
              IN  IF w.err # NilErr THEN w ELSE protocolWrite(w.m, EndMessage)

\* ------------------------------------------------------------- package rand
\*
\* A uint64 is a tuple of four 16-bit limbs, the least significant first: it
\* stands for v[1] + 2^16 * v[2] + 2^32 * v[3] + 2^48 * v[4]. A byte is a
\* number in 0..255. Tuples are indexed from 1: state[j + 1] is Go's
\* state[j], and uuid[k + 1] Go's uuid[k].

\* Most Uint64() draws one Rand instance makes.
MaxDraws == 4

\* 2^16, the number of values of one limb.
Limb == 65536

\* a ^ b of two numbers of n bits.
RECURSIVE xorBits(_, _, _)
xorBits(a, b, n) ==
    IF n = 0 THEN 0 ELSE (((a % 2) + (b % 2)) % 2) + 2 * xorBits(a \div 2, b \div 2, n - 1)

\* a | b of two numbers of n bits.
RECURSIVE orBits(_, _, _)
orBits(a, b, n) ==
    IF n = 0
    THEN 0
    ELSE (IF (a % 2) + (b % 2) > 0 THEN 1 ELSE 0) + 2 * orBits(a \div 2, b \div 2, n - 1)

\* a & b of two numbers of n bits.
RECURSIVE andBits(_, _, _)
andBits(a, b, n) ==
    IF n = 0 THEN 0 ELSE ((a % 2) * (b % 2)) + 2 * andBits(a \div 2, b \div 2, n - 1)

\* x ^ y
xor(x, y) ==
    <<xorBits(x[1], y[1], 16), xorBits(x[2], y[2], 16), xorBits(x[3], y[3], 16),
      xorBits(x[4], y[4], 16)>>

\* x | y
or(x, y) ==
    <<orBits(x[1], y[1], 16), orBits(x[2], y[2], 16), orBits(x[3], y[3], 16),
      orBits(x[4], y[4], 16)>>

\* Limb j (0: least significant) of x, 0 outside the uint64.
limb(x, j) == IF j \in 0..3 THEN x[j + 1] ELSE 0

\* x << k, for k in 0..63: the bits shifted out at the top are lost.
shl(x, k) ==
    LET q == k \div 16
        r == k % 16
        at(j) == (limb(x, j - q) % (2 ^ (16 - r))) * (2 ^ r)
                 + (limb(x, j - q - 1) \div (2 ^ (16 - r)))
    IN  <<at(0), at(1), at(2), at(3)>>

\* x >> k, for k in 0..63.
shr(x, k) ==
    LET q == k \div 16
        r == k % 16
        at(j) == (limb(x, j + q) \div (2 ^ r))
                 + (limb(x, j + q + 1) % (2 ^ r)) * (2 ^ (16 - r))
    IN  <<at(0), at(1), at(2), at(3)>>

\* x + y of two uint64: the sum modulo 2^64 (the carry out of the top limb is
\* lost).
add(x, y) ==
    LET s1 == x[1] + y[1]
        s2 == x[2] + y[2] + (s1 \div Limb)
        s3 == x[3] + y[3] + (s2 \div Limb)
        s4 == x[4] + y[4] + (s3 \div Limb)
    IN  <<s1 % Limb, s2 % Limb, s3 % Limb, s4 % Limb>>

\* rotl
rotl(x, k) == or(shl(x, k), shr(x, 64 - k))

\* binary.LittleEndian.Uint64 of the eight bytes of sum from offset `from`
\* (an offset counted from 0).
LittleEndianUint64(sum, from) ==
    <<sum[from + 1] + 256 * sum[from + 2], sum[from + 3] + 256 * sum[from + 4],
      sum[from + 5] + 256 * sum[from + 6], sum[from + 7] + 256 * sum[from + 8]>>

\* Byte k (0..7) of what binary.LittleEndian.PutUint64 stores for v.
LittleEndianByte(v, k) ==
    IF k % 2 = 0 THEN limb(v, k \div 2) % 256 ELSE limb(v, k \div 2) \div 256

\* The invocation ids the Rand instances are created from: sixteen 0x00 bytes,
\* no byte at all, the single byte 0x01, and sixteen 0xff bytes.
InvocationIDs ==
    {[n \in 1..16 |-> 0], <<>>, <<1>>, [n \in 1..16 |-> 255]}

\* crypto/sha256 on the invocation ids above: the 32 bytes of the digest.
sha256(invocationID) ==
    CASE invocationID = [n \in 1..16 |-> 0] ->
            <<55, 71, 8, 255, 247, 113, 157, 213, 151, 158, 200, 117, 213, 108, 210, 40, 111,
              109, 60, 247, 236, 49, 122, 59, 37, 99, 42, 171, 40, 236, 55, 187>>
      [] invocationID = <<>> ->
            <<227, 176, 196, 66, 152, 252, 28, 20, 154, 251, 244, 200, 153, 111, 185, 36, 39,
              174, 65, 228, 100, 155, 147, 76, 164, 149, 153, 27, 120, 82, 184, 85>>
      [] invocationID = <<1>> ->
            <<75, 245, 18, 47, 52, 69, 84, 197, 59, 222, 46, 187, 140, 210, 183, 227, 209, 96,
              10, 214, 49, 195, 133, 165, 215, 204, 226, 60, 119, 133, 69, 154>>
      [] invocationID = [n \in 1..16 |-> 255] ->
            <<90, 198, 165, 148, 95, 22, 80, 9, 17, 33, 145, 41, 152, 75, 168, 179, 135, 160,
              111, 36, 254, 56, 60, 228, 232, 26, 115, 41, 64, 101, 70, 27>>

\* newSource: the state of a new Source, four uint64.
newSource(invocationID) ==
    LET sum == sha256(invocationID)
    IN  <<LittleEndianUint64(sum, 0), LittleEndianUint64(sum, 8), LittleEndianUint64(sum, 16),
          LittleEndianUint64(sum, 24)>>

\* Source.Uint64: the value returned and the state afterwards.
SourceUint64(state) ==
    LET result == add(rotl(add(state[1], state[4]), 23), state[1])
        t == shl(state[2], 17)
        s2 == xor(state[3], state[1])
        s3 == xor(state[4], state[2])
        s1 == xor(state[2], s2)
        s0 == xor(state[1], s3)
    IN  [result |-> result, state |-> <<s0, s1, xor(s2, t), rotl(s3, 45)>>]

\* The sixteen bytes the two binary.LittleEndian.PutUint64 calls of Rand.UUID
\* store.
PutUint64s(first, second) ==
    <<LittleEndianByte(first, 0), LittleEndianByte(first, 1), LittleEndianByte(first, 2),
      LittleEndianByte(first, 3), LittleEndianByte(first, 4), LittleEndianByte(first, 5),
      LittleEndianByte(first, 6), LittleEndianByte(first, 7), LittleEndianByte(second, 0),
      LittleEndianByte(second, 1), LittleEndianByte(second, 2), LittleEndianByte(second, 3),
      LittleEndianByte(second, 4), LittleEndianByte(second, 5), LittleEndianByte(second, 6),
      LittleEndianByte(second, 7)>>

\* A variant of UUIDBytes that leaves bytes 6 and 8 as drawn.
UUIDBytesAsDrawn(first, second) == PutUint64s(first, second)

\* Rand.UUID after its two draws: the sixteen bytes made of the two uint64
\* drawn, with version and variant set in uuid[6] and uuid[8].
UUIDBytes(first, second) ==
    [PutUint64s(first, second) EXCEPT ![7] = orBits(andBits(@, 15, 8), 64, 8),
                                      ![9] = orBits(andBits(@, 63, 8), 128, 8)]

\* The Rand instances created in one run.
Instances == {1, 2}

\* A variant of sourceOf in which every Rand draws from the first one's source.
sourceShared(sources, r) == sources[1]

\* r.source, the Source of Rand r.
sourceOf(sources, r) == sources[r]

\* ------------------------------------------------------------------ state

VARIABLES
    pc,             \* where the invocation is: AwaitStart, AwaitInput, Replay,
                    \* Running (inside m.handler.Call), Raised (a panic is
                    \* unwinding the handler), Done
    result,         \* what Machine.Start returned (Nil until it returns)
    known,          \* start.KnownEntries
    entries,        \* m.entries
    outputSeen,     \* process's outputSeen
    entryIndex,     \* m.entryIndex
    failure,        \* m.failure
    written,        \* the frames handed to m.protocol.Write
    connBroken,     \* the transport has failed: writes err
    cancelled,      \* m.ctx.Err() != nil
    suspendCause,   \* the cause m.suspensionCtx was cancelled with (NilErr: live)
    routerStarted,  \* go m.handleCompletionsAcks() has run
    handlerInvoked, \* m.handler.Call has been called
    futs,           \* entry indexes of the response futures the handler holds
    completed,      \* entry indexes whose completion the router delivered
    raised,         \* the panic unwinding the handler (Nil: none)
    nOps,           \* journal operations the handler has performed
    lastCall,       \* history: the latest replayOrNew call
    nCalls,         \* history: how many replayOrNew calls were made
    mismatches,     \* history: the JournalMismatches raised (entry index, branch)
    lastMarshal,    \* history: the latest operation whose input failed to encode
    ending,         \* history: how the invocation terminated
    reads,          \* history: what the main task's m.protocol.Read() calls yielded
    tpc,            \* per handler goroutine: where it is in a journal operation
    holder,         \* the goroutine that holds m.entryMutex (NoThread: free)
    tidx,           \* per goroutine: the entry index its operation was assigned
    tfut,           \* per goroutine: the entry index of the future it awaits
    order,          \* history: the entry indexes of the new frames, in write order
    invocationID,   \* the invocation id the Rand instances are created from
    source,         \* per Rand instance: its Source's state (four 64-bit words)
    drawn,          \* history, per Rand instance: the Uint64() values, in order
    uuids           \* history, per Rand instance: the UUID() values, in order

vars == <<pc, result, known, entries, outputSeen, entryIndex, failure, written, connBroken,
          cancelled, suspendCause, routerStarted, handlerInvoked, futs, completed, raised,
          nOps, lastCall, nCalls, mismatches, lastMarshal, ending, reads, tpc, holder, tidx,
          tfut, order, invocationID, source, drawn, uuids>>

machine == <<entries, entryIndex, failure, written>>

env == <<connBroken, cancelled, suspendCause, completed>>

history == <<lastCall, nCalls, mismatches, lastMarshal>>

\* The state of one invocation on one goroutine.
invocation == <<pc, result, known, entries, outputSeen, entryIndex, failure, written,
                connBroken, cancelled, suspendCause, routerStarted, handlerInvoked, futs,
                completed, raised, nOps, lastCall, nCalls, mismatches, lastMarshal, ending,
                reads>>

\* The state of the goroutines that share the journal.
goroutines == <<tpc, holder, tidx, tfut, order>>

\* The state of the Rand instances.
rands == <<invocationID, source, drawn, uuids>>

\* The machine record of the current state.
Mach == Machine(entries, entryIndex, failure, written, connBroken)

NoCall == [n |-> 0, op |-> Nil, branch |-> "none", panic |-> Nil, out |-> Nil,
           entryIndex |-> 0, before |-> Nil, after |-> Nil]

NoMarshal == [op |-> "none", err |-> NilErr, nCalls |-> 0, before |-> Nil, after |-> Nil]

NoEnding == [kind |-> "none", bytes |-> "", err |-> NilErr, panic |-> Nil, mark |-> 0]

Ending(kind, bytes, err, panic) ==
    [kind |-> kind, bytes |-> bytes, err |-> err, panic |-> panic, mark |-> Len(written)]

ErrUnexpectedMessage == [name |-> "ErrUnexpectedMessage", code |-> 500]

\* The handler runs on one goroutine: none other takes part.
NoGoroutines ==
    /\ tpc = [t \in Threads |-> "idle"]
    /\ holder = NoThread
    /\ tidx = [t \in Threads |-> 0]
    /\ tfut = [t \in Threads |-> 0]
    /\ order = <<>>

\* No Rand instance is in use.
NoRands ==
    /\ invocationID = <<>>
    /\ source = [r \in Instances |-> newSource(<<>>)]
    /\ drawn = [r \in Instances |-> <<>>]
    /\ uuids = [r \in Instances |-> <<>>]

Init ==
    /\ pc = "AwaitStart"
    /\ result = Nil
    /\ known = 0
    /\ entries = <<>>
    /\ outputSeen = FALSE
    /\ entryIndex = 0
    /\ failure = Nil
    /\ written = <<>>
    /\ connBroken = FALSE
    /\ cancelled = FALSE
    /\ suspendCause = NilErr
    /\ routerStarted = FALSE
    /\ handlerInvoked = FALSE
    /\ futs = {}
    /\ completed = {}
    /\ raised = Nil
    /\ nOps = 0
    /\ lastCall = NoCall
    /\ nCalls = 0
    /\ mismatches = <<>>
    /\ lastMarshal = NoMarshal
    /\ ending = NoEnding
    /\ reads = <<>>
    /\ NoGoroutines
    /\ NoRands

\* What m.protocol.Read() yields when the runtime sends a frame of `frames`,
\* or the transport fails.
Reads(frames) ==
    {[msg |-> f, err |-> NilErr] : f \in frames} \cup {[msg |-> Nil, err |-> TransportErr]}

\* ------------------------------------------------- negotiation and replay

\* Machine.Start: reads the first frame, which must be a StartMessage.
Start ==
    /\ pc = "AwaitStart"
    /\ \E rd \in Reads(NegotiationFrames) :
          /\ reads' = Append(reads, rd)
          /\ IF rd.err # NilErr
             THEN /\ pc' = "Done"
                  /\ result' = rd.err
                  /\ known' = known
             ELSE IF ~isStart(rd.msg)
                  THEN /\ pc' = "Done"
                       /\ result' = ErrUnexpectedMessage
                       /\ known' = known
                  ELSE /\ pc' = "AwaitInput"
                       /\ result' = result
                       /\ known' = rd.msg.KnownEntries
    /\ UNCHANGED <<machine, env, history, outputSeen, routerStarted, handlerInvoked, futs,
                   raised, nOps, ending>>
    /\ UNCHANGED <<goroutines, rands>>

\* Machine.process, up to the replay loop: reads the second frame, which must
\* be an InputEntryMessage, and makes the empty journal.
processInput ==
    /\ pc = "AwaitInput"
    /\ \E rd \in Reads(NegotiationFrames) :
          /\ reads' = Append(reads, rd)
          /\ IF rd.err # NilErr
             THEN /\ pc' = "Done"
                  /\ result' = rd.err
             ELSE IF ~isInput(rd.msg)
                  THEN /\ pc' = "Done"
                       /\ result' = ErrUnexpectedMessage
                  ELSE /\ pc' = "Replay"
                       /\ result' = result
    /\ entries' = <<>>
    /\ outputSeen' = FALSE
    /\ UNCHANGED <<known, entryIndex, failure, written, env, history, routerStarted,
                   handlerInvoked, futs, raised, nOps, ending>>
    /\ UNCHANGED <<goroutines, rands>>

\* Machine.process, one turn of the replay loop (i < start.KnownEntries with
\* i = Len(entries) + 1): reads one frame and appends it to the journal.
processReplay ==
    /\ pc = "Replay"
    /\ moreToReplay(entries, known)
    /\ \E rd \in Reads(ReplayMessages) :
          /\ reads' = Append(reads, rd)
          /\ IF rd.err # NilErr
             THEN /\ pc' = "Done"
                  /\ result' = [name |-> "failed to read entry", code |-> 500]
                  /\ UNCHANGED <<entries, outputSeen>>
             ELSE /\ entries' = Append(entries, rd.msg)
                  /\ outputSeen' = (outputSeen \/ rd.msg.type = "OutputEntryMessage")
                  /\ UNCHANGED <<pc, result>>
    /\ UNCHANGED <<known, entryIndex, failure, written, env, history, routerStarted,
                   handlerInvoked, futs, raised, nOps, ending>>
    /\ UNCHANGED <<goroutines, rands>>

\* Machine.process after the replay loop: starts the completion router and
\* calls Machine.invoke, which either writes End (outputSeen) or calls the
\* handler.
invoke ==
    /\ pc = "Replay"
    /\ ~moreToReplay(entries, known)
    /\ routerStarted' = TRUE
    /\ IF outputSeen
       THEN LET w == invokeOutputSeen(Mach)
            IN  /\ written' = w.m.written
                /\ result' = w.err
                /\ pc' = "Done"
                /\ ending' = Ending("outputSeen", "", NilErr, Nil)
                /\ UNCHANGED handlerInvoked
       ELSE /\ handlerInvoked' = TRUE
            /\ pc' = "Running"
            /\ UNCHANGED <<written, result, ending>>
    /\ UNCHANGED <<known, entries, outputSeen, entryIndex, failure, env, history, futs,
                   raised, nOps>>
    /\ UNCHANGED <<reads, goroutines, rands>>

\* ------------------------------------------------------------ the handler

\* What one replayOrNew call r, made for operation op, does to the state.
Called(op, r) ==
    /\ entryIndex' = r.m.entryIndex
    /\ failure' = r.m.failure
    /\ written' = r.m.written
    /\ nCalls' = nCalls + 1
    /\ lastCall' = [n |-> nCalls + 1, op |-> op, branch |-> r.branch, panic |-> r.panic,
                    out |-> r.out, entryIndex |-> r.entryIndex,
                    before |-> Mach, after |-> r.m]
    /\ mismatches' = IF r.panic # Nil /\ r.panic.kind = "entryMismatch"
                         /\ r.branch # "failure"
                     THEN Append(mismatches, [entryIndex |-> r.panic.entryIndex,
                                              branch |-> r.branch])
                     ELSE mismatches
    /\ lastMarshal' = lastMarshal
    /\ nOps' = nOps + 1
    /\ IF r.panic # Nil
       THEN pc' = "Raised" /\ raised' = r.panic
       ELSE pc' = pc /\ raised' = raised

\* The bookkeeping of an operation that returned err before it reached the
\* journal: r is what the operation made of the machine.
Failed(op, r) ==
    /\ entryIndex' = r.m.entryIndex
    /\ failure' = r.m.failure
    /\ written' = r.m.written
    /\ lastMarshal' = [op |-> op, err |-> r.err, nCalls |-> nCalls, before |-> Mach,
                       after |-> r.m]
    /\ nOps' = nOps + 1
    /\ UNCHANGED <<pc, raised, futs, lastCall, nCalls, mismatches>>

\* serviceCall.RequestFuture on an input of `inputs`: the input is encoded,
\* then doCall, then a response future on the entry index returned.
RequestFutureOf(inputs) ==
    /\ pc = "Running"
    /\ nOps < MaxOps
    /\ \E req \in HandlerRequests, input \in inputs :
          LET r == serviceCallRequestFuture(Mach, req.service, req.key, req.method, input)
          IN  IF r.err # NilErr
              THEN Failed("RequestFuture", r)
              ELSE /\ Called(CallOp([req EXCEPT !.params = r.bytes]), r)
                   /\ futs' = IF r.panic = Nil
                              THEN futs \cup {NewResponseFuture(r.entryIndex)}
                              ELSE futs
    /\ UNCHANGED <<result, known, entries, outputSeen, env, routerStarted, handlerInvoked,
                   ending>>
    /\ UNCHANGED <<reads, goroutines, rands>>

RequestFuture == RequestFutureOf(HandlerInputs)

\* serviceCall.Send on an input of `inputs`: the input is encoded, then
\* sendCall.
SendOf(inputs) ==
    /\ pc = "Running"
    /\ nOps < MaxOps
    /\ \E req \in HandlerRequests, input \in inputs, delay \in Delays, now \in Clock :
          LET r == serviceCallSend(Mach, req.service, req.key, req.method, input, delay, now)
          IN  IF r.err # NilErr
              THEN Failed("Send", r)
              ELSE /\ Called(SendOp([req EXCEPT !.params = r.bytes], delay, now), r)
                   /\ futs' = futs
    /\ UNCHANGED <<result, known, entries, outputSeen, env, routerStarted, handlerInvoked,
                   ending>>
    /\ UNCHANGED <<reads, goroutines, rands>>

Send == SendOf(HandlerInputs)

\* ResponseFuture.Response on a future whose completion has arrived: returns.
Response ==
    /\ pc = "Running"
    /\ \E i \in futs \cap completed : futs' = futs \ {i}
    /\ UNCHANGED <<pc, result, known, machine, outputSeen, env, history, routerStarted,
                   handlerInvoked, raised, nOps, ending>>
    /\ UNCHANGED <<reads, goroutines, rands>>

\* An await (ResponseFuture.Response, or a Selector over several futures) on
\* futures none of which is completed, once the suspension context is
\* cancelled: raises a SuspensionPanic with the awaited entry indexes and the
\* context's cause.
Suspend ==
    /\ pc = "Running"
    /\ suspendCause # NilErr
    /\ \E S \in SUBSET (futs \ completed) :
          /\ S # {}
          /\ raised' = [kind |-> "SuspensionPanic", EntryIndexes |-> S, Err |-> suspendCause]
    /\ pc' = "Raised"
    /\ UNCHANGED <<result, known, machine, outputSeen, env, history, routerStarted,
                   handlerInvoked, futs, nOps, ending>>
    /\ UNCHANGED <<reads, goroutines, rands>>

\* User code panics with a value of its own.
HandlerPanic ==
    /\ pc = "Running"
    /\ raised' = [kind |-> "other", value |-> "user panic"]
    /\ pc' = "Raised"
    /\ UNCHANGED <<result, known, machine, outputSeen, env, history, routerStarted,
                   handlerInvoked, futs, nOps, ending>>
    /\ UNCHANGED <<reads, goroutines, rands>>

\* User code recovers the panic (a deferred recover() in the handler) and
\* carries on.
HandlerRecover ==
    /\ pc = "Raised"
    /\ raised' = Nil
    /\ pc' = "Running"
    /\ UNCHANGED <<result, known, machine, outputSeen, env, history, routerStarted,
                   handlerInvoked, futs, nOps, ending>>
    /\ UNCHANGED <<reads, goroutines, rands>>

\* The values and errors a handler returns.
HandlerReturns ==
    {[bytes |-> "ok", err |-> NilErr]} \cup {[bytes |-> "", err |-> e] : e \in HandlerErrors}

\* m.handler.Call returns (bytes, err): the rest of Machine.invoke.
HandlerReturn ==
    /\ pc = "Running"
    /\ \E ret \in HandlerReturns :
          LET w == invokeReturn(Mach, ret.bytes, ret.err)
          IN  /\ written' = w.m.written
              /\ result' = w.err
              /\ ending' = Ending("return", ret.bytes, ret.err, Nil)
    /\ pc' = "Done"
    /\ UNCHANGED <<known, entries, outputSeen, entryIndex, failure, env, history,
                   routerStarted, handlerInvoked, futs, raised, nOps>>
    /\ UNCHANGED <<reads, goroutines, rands>>

\* The panic leaves m.handler.Call: the deferred function of Machine.invoke
\* recovers it, and invoke returns nil.
invokeRecovered ==
    /\ pc = "Raised"
    /\ written' = invokeDeferred(Mach, raised, cancelled).written
    /\ result' = NilErr
    /\ ending' = Ending("panic", "", NilErr, raised)
    /\ pc' = "Done"
    /\ UNCHANGED <<known, entries, outputSeen, entryIndex, failure, env, history,
                   routerStarted, handlerInvoked, futs, raised, nOps>>
    /\ UNCHANGED <<reads, goroutines, rands>>

\* -------------------------------------------------------- the environment
\*
\* The environment acts between two steps of the main task: an event that
\* falls while a panic unwinds changes nothing the unwinding reads that the
\* same event just before the raising step would not.

\* The runtime cancels the HTTP/2 request: m.ctx is cancelled, and with it
\* m.suspensionCtx, its child, unless that was cancelled before.
Cancel ==
    /\ pc \in {"Replay", "Running"}
    /\ ~cancelled
    /\ cancelled' = TRUE
    /\ suspendCause' = IF suspendCause = NilErr THEN Canceled ELSE suspendCause
    /\ UNCHANGED <<pc, result, known, machine, outputSeen, connBroken, completed, history,
                   routerStarted, handlerInvoked, futs, raised, nOps, ending>>
    /\ UNCHANGED <<reads, goroutines, rands>>

\* The transport fails: every later write errs.
ConnBreak ==
    /\ pc \in {"Replay", "Running"}
    /\ ~connBroken
    /\ connBroken' = TRUE
    /\ UNCHANGED <<pc, result, known, machine, outputSeen, cancelled, suspendCause,
                   completed, history, routerStarted, handlerInvoked, futs, raised, nOps,
                   ending>>
    /\ UNCHANGED <<reads, goroutines, rands>>

\* Machine.handleCompletionsAcks reads a Completion for a pending future.
RouterCompletion ==
    /\ routerStarted
    /\ pc = "Running"
    /\ suspendCause = NilErr
    /\ \E i \in futs \ completed : completed' = completed \cup {i}
    /\ UNCHANGED <<pc, result, known, machine, outputSeen, connBroken, cancelled,
                   suspendCause, history, routerStarted, handlerInvoked, futs, raised, nOps,
                   ending>>
    /\ UNCHANGED <<reads, goroutines, rands>>

\* Machine.handleCompletionsAcks reads the end of the stream (EOF) or a
\* transport error: it cancels the suspension context with that cause.
RouterStop ==
    /\ routerStarted
    /\ pc = "Running"
    /\ suspendCause = NilErr
    /\ \E cause \in {EOF, TransportErr} : suspendCause' = cause
    /\ UNCHANGED <<pc, result, known, machine, outputSeen, connBroken, cancelled, completed,
                   history, routerStarted, handlerInvoked, futs, raised, nOps, ending>>
    /\ UNCHANGED <<reads, goroutines, rands>>

Next ==
    \/ Start
    \/ processInput
    \/ processReplay
    \/ invoke
    \/ RequestFuture
    \/ Send
    \/ Response
    \/ Suspend
    \/ HandlerPanic
    \/ HandlerRecover
    \/ HandlerReturn
    \/ invokeRecovered
    \/ Cancel
    \/ ConnBreak
    \/ RouterCompletion
    \/ RouterStop

Spec == Init /\ [][Next]_vars

\* ------------------------------------- goroutines that share the journal
\*
\* A handler that starts goroutines of its own has several callers of
\* replayOrNew at once. Each goroutine's journal operation is taken apart
\* into the steps m.entryMutex orders: Lock, the failure check and cursor
\* increment, the entry's replay or creation, and the deferred Unlock;
\* awaiting the response future of a Call comes after those.

\* The journal entries the runtime replays in these runs.
SharedReplayMessages ==
    {CallEntryMessage(BaseRequest.service, BaseRequest.key, BaseRequest.method,
                      BaseRequest.params),
     OneWayCallEntryMessage(BaseRequest.service, BaseRequest.key, BaseRequest.method,
                            BaseRequest.params, 0),
     SetStateEntryMessage}

\* The operations the goroutines perform.
SharedOps ==
    {CallOp(req) : req \in HandlerRequests}
    \cup {SendOp(req, delay, now) : req \in HandlerRequests, delay \in Delays, now \in Clock}

\* The state of the invocation when the handler has just been invoked, after
\* a replay of the knownEntries - 1 entries es.
HandlerInvoked(knownEntries, es) ==
    /\ pc = "Running"
    /\ result = Nil
    /\ known = knownEntries
    /\ entries = es
    /\ outputSeen = FALSE
    /\ entryIndex = 0
    /\ failure = Nil
    /\ written = <<>>
    /\ connBroken = FALSE
    /\ cancelled = FALSE
    /\ suspendCause = NilErr
    /\ routerStarted = TRUE
    /\ handlerInvoked = TRUE
    /\ futs = {}
    /\ completed = {}
    /\ raised = Nil
    /\ nOps = 0
    /\ lastCall = NoCall
    /\ nCalls = 0
    /\ mismatches = <<>>
    /\ lastMarshal = NoMarshal
    /\ ending = NoEnding
    /\ reads = <<[msg |-> StartMessage(knownEntries), err |-> NilErr],
                 [msg |-> InputEntryMessage, err |-> NilErr]>>
               \o [k \in 1..(knownEntries - 1) |-> [msg |-> es[k], err |-> NilErr]]

SharedInit ==
    /\ \E knownEntries \in 1..MaxKnown :
          \E es \in [1..(knownEntries - 1) -> SharedReplayMessages] :
             HandlerInvoked(knownEntries, es)
    /\ NoGoroutines
    /\ NoRands

\* replayOrNew's m.entryMutex.Lock(), by goroutine t.
Lock(t) ==
    /\ pc = "Running"
    /\ tpc[t] = "idle"
    /\ nOps < MaxOps
    /\ mutexFree(holder)
    /\ holder' = t
    /\ tpc' = [tpc EXCEPT ![t] = "locked"]
    /\ nOps' = nOps + 1
    /\ UNCHANGED <<pc, result, known, machine, outputSeen, env, history, routerStarted,
                   handlerInvoked, futs, raised, ending, reads, tidx, tfut, order, rands>>

\* replayOrNew's check of m.failure and its m.entryIndex += 1, by goroutine t.
Increment(t) ==
    /\ tpc[t] = "locked"
    /\ IF poisoned(Mach)
       THEN /\ tpc' = [tpc EXCEPT ![t] = "panicking"]
            /\ UNCHANGED <<entryIndex, tidx>>
       ELSE /\ entryIndex' = advance(Mach).entryIndex
            /\ tidx' = [tidx EXCEPT ![t] = advance(Mach).entryIndex]
            /\ tpc' = [tpc EXCEPT ![t] = "indexed"]
    /\ UNCHANGED <<pc, result, known, entries, failure, written, outputSeen, env, history,
                   routerStarted, handlerInvoked, futs, raised, nOps, ending, reads, holder,
                   tfut, order, rands>>

\* The rest of replayOrNew's body, by goroutine t: the entry at the cursor is
\* replayed or a new one written. A Call that returns leaves t with a
\* response future.
ReplayOrWrite(t) ==
    /\ tpc[t] = "indexed"
    /\ \E op \in SharedOps :
          LET r == replayOrNewAtCursor(Mach, op)
          IN  /\ failure' = r.m.failure
              /\ written' = r.m.written
              /\ order' = IF r.branch = "new"
                          THEN Append(order, [entryIndex |-> tidx[t], thread |-> t])
                          ELSE order
              /\ tfut' = IF r.panic = Nil /\ op.M = "CallEntryMessage"
                         THEN [tfut EXCEPT ![t] = NewResponseFuture(r.entryIndex)]
                         ELSE tfut
              /\ tpc' = [tpc EXCEPT ![t] = IF r.panic = Nil THEN "returning" ELSE "panicking"]
    /\ UNCHANGED <<pc, result, known, entries, entryIndex, outputSeen, env, history,
                   routerStarted, handlerInvoked, futs, raised, nOps, ending, reads, holder,
                   tidx, rands>>

\* A variant of Unlock for a replayOrNew that unlocks before its return
\* statements and not by defer: a panic leaves the mutex held.
UnlockOnReturnOnly(t) ==
    /\ tpc[t] \in {"returning", "panicking"}
    /\ holder' = IF tpc[t] = "returning" THEN unlock(holder, t) ELSE holder
    /\ tpc' = [tpc EXCEPT ![t] = IF tpc[t] = "returning" /\ tfut[t] # 0
                                 THEN "holding"
                                 ELSE "idle"]
    /\ tidx' = [tidx EXCEPT ![t] = 0]
    /\ UNCHANGED <<pc, result, known, machine, outputSeen, env, history, routerStarted,
                   handlerInvoked, futs, raised, nOps, ending, reads, tfut, order, rands>>

\* replayOrNew's deferred m.entryMutex.Unlock(), as goroutine t returns from
\* it or panics out of it (the goroutine recovers the panic).
Unlock(t) ==
    /\ tpc[t] \in {"returning", "panicking"}
    /\ holder' = unlock(holder, t)
    /\ tpc' = [tpc EXCEPT ![t] = IF tpc[t] = "returning" /\ tfut[t] # 0
                                 THEN "holding"
                                 ELSE "idle"]
    /\ tidx' = [tidx EXCEPT ![t] = 0]
    /\ UNCHANGED <<pc, result, known, machine, outputSeen, env, history, routerStarted,
                   handlerInvoked, futs, raised, nOps, ending, reads, tfut, order, rands>>

\* Goroutine t calls Response on the future it holds, and blocks.
Await(t) ==
    /\ tpc[t] = "holding"
    /\ tpc' = [tpc EXCEPT ![t] = "awaiting"]
    /\ UNCHANGED <<pc, result, known, machine, outputSeen, env, history, routerStarted,
                   handlerInvoked, futs, raised, nOps, ending, reads, holder, tidx, tfut,
                   order, rands>>

\* The completion of the entry goroutine t awaits arrives: Response returns.
Resume(t) ==
    /\ tpc[t] = "awaiting"
    /\ tpc' = [tpc EXCEPT ![t] = "idle"]
    /\ tfut' = [tfut EXCEPT ![t] = 0]
    /\ UNCHANGED <<pc, result, known, machine, outputSeen, env, history, routerStarted,
                   handlerInvoked, futs, raised, nOps, ending, reads, holder, tidx, order,
                   rands>>

SharedNext ==
    \/ \E t \in Threads : Lock(t)
    \/ \E t \in Threads : Increment(t)
    \/ \E t \in Threads : ReplayOrWrite(t)
    \/ \E t \in Threads : Unlock(t)
    \/ \E t \in Threads : Await(t)
    \/ \E t \in Threads : Resume(t)
    \/ ConnBreak

SharedSpec == SharedInit /\ [][SharedNext]_vars

\* The goroutines under a fair scheduler: a goroutine inside replayOrNew,
\* which waits for nothing there, goes on to its next step.
SharedFairSpec ==
    /\ SharedSpec
    /\ \A t \in Threads :
          WF_vars(Increment(t)) /\ WF_vars(ReplayOrWrite(t)) /\ WF_vars(Unlock(t))

\* ------------------------------------------------------ Unencodable inputs
\* A handler that also passes Void and values the codec cannot encode. It
\* starts once the handler is invoked, on a replayed journal of its own
\* earlier calls.
CodecInit ==
    /\ \E knownEntries \in 1..MaxKnown :
          \E es \in [1..(knownEntries - 1) -> SharedReplayMessages] :
             HandlerInvoked(knownEntries, es)
    /\ NoGoroutines
    /\ NoRands

CodecNext ==
    \/ RequestFutureOf(Inputs)
    \/ SendOf(Inputs)
    \/ HandlerRecover
    \/ HandlerReturn
    \/ invokeRecovered
    \/ ConnBreak

CodecSpec == CodecInit /\ [][CodecNext]_vars

\* ------------------------------------------------------ Rand instances
\*
\* Two Rand instances are created from one invocation id (as by two runs of
\* one invocation) and draw independently of each other.

RandInit ==
    /\ HandlerInvoked(1, <<>>)
    /\ NoGoroutines
    /\ invocationID \in InvocationIDs
    /\ source = [r \in Instances |-> newSource(invocationID)]
    /\ drawn = [r \in Instances |-> <<>>]
    /\ uuids = [r \in Instances |-> <<>>]

\* Rand.Uint64 on instance r.
RandUint64(r) ==
    /\ Len(drawn[r]) < MaxDraws
    /\ LET d == SourceUint64(sourceOf(source, r))
       IN  /\ source' = [source EXCEPT ![r] = d.state]
           /\ drawn' = [drawn EXCEPT ![r] = Append(@, d.result)]
    /\ UNCHANGED <<invocation, goroutines, invocationID, uuids>>

\* Rand.UUID on instance r: two draws, and the sixteen bytes made of them.
RandUUID(r) ==
    /\ Len(drawn[r]) + 2 <= MaxDraws
    /\ LET first == SourceUint64(sourceOf(source, r))
           second == SourceUint64(first.state)
       IN  /\ source' = [source EXCEPT ![r] = second.state]
           /\ drawn' = [drawn EXCEPT ![r] = @ \o <<first.result, second.result>>]
           /\ uuids' = [uuids EXCEPT ![r] =
                           Append(@, [after |-> Len(drawn[r]),
                                      uuid |-> UUIDBytes(first.result, second.result)])]
    /\ UNCHANGED <<invocation, goroutines, invocationID>>

RandNext ==
    \/ \E r \in Instances : RandUint64(r)
    \/ \E r \in Instances : RandUUID(r)

RandSpec == RandInit /\ [][RandNext]_vars

\* ------------------------------------------------------------ properties

\* The frames Machine.invoke wrote after the handler ended (or, with
\* outputSeen, instead of calling it).
TermFrames == SubSeq(written, ending.mark + 1, Len(written))

\* The frames written before that: the entries of the handler's operations.
EntryFrames == SubSeq(written, 1, ending.mark)

FrameTypes(frames) == {frames[k].type : k \in DOMAIN frames}

ResponseTypes == {"OutputEntryMessage", "EndMessage", "ErrorMessage", "SuspensionMessage"}

\* The handler ended: it returned, or a panic left it.
HandlerEnded == ending.kind \in {"return", "panic"}

\* The latest replayOrNew call found the machine without a sticky failure.
CallUnpoisoned == lastCall.n > 0 /\ lastCall.before.failure = Nil

\* The entry index the latest replayOrNew call worked at.
CallIndex == lastCall.before.entryIndex + 1

\* The latest replayOrNew call fell into the replayed portion of the journal.
CallInReplay == CallUnpoisoned /\ CallIndex <= Len(entries)

\* The journal entry the latest replayOrNew call looked at.
CallEntry == entries[CallIndex]

\* C1. Entry-index monotonicity: with no failure before it, the n-th call to
\* replayOrNew that returns - replaying or creating an entry - returns entry
\* index n, and leaves the cursor at n.
C1_EntryIndexMonotonic ==
    (CallUnpoisoned /\ lastCall.panic = Nil)
        => (lastCall.entryIndex = lastCall.n /\ entryIndex = lastCall.n)

\* C1 witness: the third call returned, creating an entry after two replayed ones.
C1_Witness ==
    /\ lastCall.n = 3
    /\ lastCall.panic = Nil
    /\ lastCall.branch = "new"
    /\ Len(entries) = 2
    /\ lastCall.entryIndex = 3

\* The JournalMismatch code and entry index i are in an ErrorMessage written.
MismatchReported(i) ==
    \E k \in DOMAIN written :
        /\ written[k].type = "ErrorMessage"
        /\ written[k].Code = ErrJournalMismatch
        /\ written[k].hasRelatedEntryIndex
        /\ written[k].RelatedEntryIndex = i

\* C2. Tag mismatch: an operation whose cursor i is within the replayed
\* portion and whose journal entry at i has another message type raises a
\* JournalMismatch that carries i, and the invocation, once over, has
\* written an ErrorMessage with the JournalMismatch code and
\* relatedEntryIndex i.
C2_TagMismatch ==
    /\ (CallInReplay /\ CallEntry.type # lastCall.op.M)
          => /\ lastCall.panic # Nil
             /\ lastCall.panic.kind = "entryMismatch"
             /\ lastCall.panic.entryIndex = CallIndex
    /\ pc = "Done"
          => \A k \in DOMAIN mismatches :
                mismatches[k].branch = "tag" => MismatchReported(mismatches[k].entryIndex)

\* The discriminators of a replayed entry and of a request, field by field.
SameDiscriminators(entry, req) ==
    /\ entry.ServiceName = req.service
    /\ entry.Key = req.key
    /\ entry.HandlerName = req.method
    /\ entry.Parameter = req.params

\* C3. Discriminator matching: a Call or OneWayCall that replays an entry of
\* its own type raises a JournalMismatch (at that entry's index) if and only
\* if service name, key, handler name or parameter bytes of the entry differ
\* from its arguments; when all four are equal the entry is accepted: the
\* call returns the entry's index, and a Call returns the entry.
C3_DiscriminatorMatching ==
    (CallInReplay /\ CallEntry.type = lastCall.op.M)
        => IF SameDiscriminators(CallEntry, lastCall.op.req)
           THEN /\ lastCall.panic = Nil
                /\ lastCall.entryIndex = CallIndex
                /\ lastCall.op.M = "CallEntryMessage" => lastCall.out = CallEntry
                /\ failure = Nil
           ELSE /\ lastCall.panic # Nil
                /\ lastCall.panic.kind = "entryMismatch"
                /\ lastCall.panic.entryIndex = CallIndex
                /\ lastCall.panic.actualEntry = CallEntry

\* C3 witness: a Call replayed a Call entry that differs in the key alone,
\* which raised the mismatch.
C3_Witness ==
    /\ CallInReplay
    /\ lastCall.op.M = "CallEntryMessage"
    /\ CallEntry.type = "CallEntryMessage"
    /\ CallEntry.Key # lastCall.op.req.key
    /\ CallEntry.ServiceName = lastCall.op.req.service
    /\ lastCall.panic # Nil
    /\ pc = "Raised"

\* The replay journal holds an Output entry.
ReplayedOutput == \E k \in DOMAIN entries : entries[k].type = "OutputEntryMessage"

\* C4. Output idempotence: when one of the replayed entries is an Output
\* entry, the handler is never invoked, and the invocation writes exactly
\* one End frame and nothing else.
C4_OutputIdempotence ==
    ReplayedOutput
        => /\ ~handlerInvoked
           /\ written \in {<<>>, <<EndMessage>>}
           /\ ending.kind # "none" => written = <<EndMessage>>

\* C4 witness: the replay held an Output entry and the invocation is over,
\* with End written.
C4_Witness ==
    /\ pc = "Done"
    /\ ReplayedOutput
    /\ Len(entries) = 2
    /\ ending.kind = "outputSeen"
    /\ written = <<EndMessage>>

\* The handler returned success bytes or a terminal error.
ReturnedOutput ==
    ending.kind = "return" /\ (ending.err = NilErr \/ IsTerminalError(ending.err))

\* The Output frame of what the handler returned.
OutputOfReturn ==
    IF ending.err = NilErr
    THEN OutputEntryValue(ending.bytes)
    ELSE OutputEntryFailure(ErrorCode(ending.err), ending.err.message)

C6_NonTerminalError ==
    (ending.kind = "return" /\ ending.err # NilErr /\ ~IsTerminalError(ending.err))
        => /\ TermFrames = <<ErrorMessage(ErrorCode(ending.err), ending.err.message)>>
           /\ FrameTypes(EntryFrames) \cap ResponseTypes = {}

\* C6 witness: the handler wrote an entry and returned a non-terminal error.
C6_Witness ==
    /\ pc = "Done"
    /\ ending.kind = "return"
    /\ ending.err # NilErr
    /\ ~IsTerminalError(ending.err)
    /\ Len(written) = 2
    /\ written[2].type = "ErrorMessage"
    /\ written[2].Code = 500

\* The handler unwound with a SuspensionPanic.
Suspended == ending.kind = "panic" /\ ending.panic.kind = "SuspensionPanic"

\* C7. Clean suspension: when the handler unwinds with a Suspension whose
\* cause is the end of the stream, and the outer context is not cancelled,
\* the invocation writes one SuspensionMessage with exactly the suspension's
\* entry indexes, and no Output, End or ErrorMessage.
C7_CleanSuspension ==
    (Suspended /\ ending.panic.Err = EOF /\ ~cancelled)
        => /\ TermFrames = <<SuspensionMessage(ending.panic.EntryIndexes)>>
           /\ FrameTypes(EntryFrames) \cap ResponseTypes = {}

\* C7 witness: the handler awaited two calls of its three, the stream ended,
\* and the suspension names the two.
C7_Witness ==
    /\ pc = "Done"
    /\ Suspended
    /\ ending.panic.Err = EOF
    /\ ~cancelled
    /\ Cardinality(futs) = 3
    /\ Cardinality(ending.panic.EntryIndexes) = 2
    /\ written[Len(written)] = SuspensionMessage(ending.panic.EntryIndexes)

\* C8. Sticky failure: once m.failure is set, every replayOrNew call - of a
\* Call or a OneWayCall, with the cursor inside or past the replayed portion -
\* raises that stored failure again, and neither moves the cursor, nor
\* replays an entry, nor writes a new one.
C8_StickyFailure ==
    (lastCall.n > 0 /\ lastCall.before.failure # Nil)
        => /\ lastCall.panic = lastCall.before.failure
           /\ lastCall.after = lastCall.before
           /\ lastCall.out = Nil
           /\ failure = lastCall.before.failure

\* C8 witness: a mismatch at the first of two replayed entries was caught by
\* the handler, whose next call, a Send that the second entry would have
\* satisfied, raised the stored mismatch again.
C8_Witness ==
    /\ lastCall.n = 2
    /\ lastCall.before.failure # Nil
    /\ lastCall.before.failure.kind = "entryMismatch"
    /\ lastCall.before.entryIndex = 1
    /\ Len(entries) = 2
    /\ entries[2].type = "OneWayCallEntryMessage"
    /\ SameDiscriminators(entries[2], lastCall.op.req)
    /\ lastCall.op.M = "OneWayCallEntryMessage"
    /\ pc = "Raised"
    /\ raised = failure

\* C9. No Output after a mismatch: an invocation in which a JournalMismatch
\* was raised ends with an ErrorMessage of the JournalMismatch code written
\* and with no Output and no End frame written, also when the handler caught
\* the failure and returned normally.
C9_NoOutputAfterMismatch ==
    (pc = "Done" /\ mismatches # <<>>)
        => /\ \E k \in DOMAIN written :
                 written[k].type = "ErrorMessage" /\ written[k].Code = ErrJournalMismatch
           /\ FrameTypes(written) \cap {"OutputEntryMessage", "EndMessage"} = {}

C11_WriteOrderIsIndexOrder ==
    /\ \A a, b \in DOMAIN order : a < b => order[a].entryIndex < order[b].entryIndex
    /\ Len(written) = Len(order)
    /\ \A a \in DOMAIN order : order[a].entryIndex > Len(entries)

\* C11 witness: the two goroutines wrote three new entries in turn, the
\* second goroutine the first and the third of them.
C11_Witness ==
    /\ Len(order) = 3
    /\ order[1].thread = 2
    /\ order[2].thread = 1
    /\ order[3].thread = 2
    /\ order[3].entryIndex = 3
    /\ written[2].type = "CallEntryMessage"

\* Scenario S3 has run: Start announced one known entry, the handler's first
\* and only operation was the Call, it awaited the response, no completion
\* arrived, the stream ended cleanly, and the invocation is over.
ScenarioS3 ==
    /\ pc = "Done"
    /\ known = 1
    /\ nCalls = 1
    /\ lastCall.op = CallOp(BaseRequest)
    /\ Suspended
    /\ ending.panic.Err = EOF
    /\ completed = {}
    /\ ~cancelled
    /\ ~connBroken

\* The CallEntry of scenario S3.
CallEntryS3 ==
    CallEntryMessage(BaseRequest.service, BaseRequest.key, BaseRequest.method,
                     BaseRequest.params)

\* C12, as claimed. Scenario S3: the invocation writes the CallEntry and then
\* a SuspensionMessage whose entry indexes are [2].
C12_SuspensionS3IndexTwo ==
    ScenarioS3 => written = <<CallEntryS3, SuspensionMessage({2})>>

\* C12, amended. Scenario S3: the invocation writes the CallEntry and then a
\* SuspensionMessage whose entry indexes are [1]: the Input entry is not
\* counted by the cursor, so the handler's first operation, the Call, has
\* entry index 1.
C12_SuspensionS3IndexOne ==
    ScenarioS3 => written = <<CallEntryS3, SuspensionMessage({1})>>

\* C12 witness: scenario S3 has run and ended with a SuspensionMessage.
C12_Witness ==
    /\ ScenarioS3
    /\ Len(written) = 2
    /\ written[1] = CallEntryS3
    /\ written[2].type = "SuspensionMessage"
    /\ entries = <<>>

\* The state of a Source created from invocationID after n draws.
RECURSIVE SourceAfter(_, _)
SourceAfter(id, n) ==
    IF n = 0 THEN newSource(id) ELSE SourceUint64(SourceAfter(id, n - 1)).state

UUIDsDrawn ==
    UNION {{[uuid |-> uuids[r][a].uuid,
             first |-> drawn[r][uuids[r][a].after + 1],
             second |-> drawn[r][uuids[r][a].after + 2]] : a \in DOMAIN uuids[r]} :
           r \in Instances}

\* Go's uuid[k] of a UUID.
byte(uuid, k) == uuid[k + 1]

\* C14. UUID format: in the sixteen bytes of every UUID() the high nibble of
\* byte 6 is 4 and the top two bits of byte 8 are 10; the low nibble of byte 6
\* and the low six bits of byte 8 are those of the values drawn; and every
\* other byte is the byte of the two uint64 drawn at its little-endian place,
\* the first value in bytes 0..7 and the second in bytes 8..15.
C14_UUIDFormat ==
    \A u \in UUIDsDrawn :
        /\ andBits(byte(u.uuid, 6), 240, 8) = 64
        /\ andBits(byte(u.uuid, 8), 192, 8) = 128
        /\ byte(u.uuid, 6) % 16 = u.first[4] % 16
        /\ byte(u.uuid, 8) % 64 = u.second[1] % 64
        /\ byte(u.uuid, 7) = u.first[4] \div 256
        /\ byte(u.uuid, 9) = u.second[1] \div 256
        /\ \A j \in 0..2 : byte(u.uuid, 2 * j) + 256 * byte(u.uuid, 2 * j + 1) = u.first[j + 1]
        /\ \A j \in 1..3 :
              byte(u.uuid, 8 + 2 * j) + 256 * byte(u.uuid, 8 + 2 * j + 1) = u.second[j + 1]
        /\ \A k \in 0..15 : byte(u.uuid, k) \in 0..255

\* C14 witness: a UUID was returned for which the values drawn had another
\* version nibble and other variant bits than the UUID has.
C14_Witness ==
    \E u \in UUIDsDrawn :
        /\ (u.first[4] % 256) \div 16 # 4
        /\ (u.second[1] % 256) \div 64 # 2
        /\ byte(u.uuid, 6) \div 16 = 4
        /\ byte(u.uuid, 8) \div 64 = 2

\* The entry frame of an operation: the CallEntry or OneWayCallEntry of its
\* request.
FrameOf(op) ==
    IF op.M = "CallEntryMessage"
    THEN CallEntryMessage(op.req.service, op.req.key, op.req.method, op.req.params)
    ELSE OneWayCallEntryMessage(op.req.service, op.req.key, op.req.method, op.req.params,
                                IF op.delay # 0 THEN op.now + op.delay ELSE 0)

\* C15. Replay-or-new exclusivity: a replayOrNew call that returns ran the
\* replay callback, and wrote no frame, if the incremented cursor i is at
\* most N-1 (N the known-entries count), and otherwise ran the new callback,
\* and wrote exactly one frame, the entry of the Call or OneWayCall.
C15_ReplayOrNewExclusive ==
    (CallUnpoisoned /\ lastCall.panic = Nil)
        => IF CallIndex <= known - 1
           THEN /\ lastCall.branch = "replay"
                /\ lastCall.after.written = lastCall.before.written
           ELSE /\ lastCall.branch = "new"
                /\ lastCall.after.written = Append(lastCall.before.written, FrameOf(lastCall.op))

\* C15 witness: with one replayed entry, the first call replayed it and wrote
\* nothing, and the second, a delayed Send, wrote its OneWayCall entry.
C15_Witness ==
    /\ known = 2
    /\ lastCall.n = 2
    /\ lastCall.panic = Nil
    /\ lastCall.branch = "new"
    /\ lastCall.op.M = "OneWayCallEntryMessage"
    /\ lastCall.op.delay # 0
    /\ lastCall.before.entryIndex = 1
    /\ lastCall.before.written = <<>>
    /\ Len(written) = 1

\* The first frame read was not a StartMessage.
FirstNotStart == Len(reads) >= 1 /\ reads[1].err = NilErr /\ ~isStart(reads[1].msg)

\* The frame read right after a StartMessage was not an InputEntryMessage.
SecondNotInput ==
    /\ Len(reads) >= 2
    /\ reads[1].err = NilErr
    /\ isStart(reads[1].msg)
    /\ reads[2].err = NilErr
    /\ reads[2].msg.type # "InputEntryMessage"

\* C16. Negotiation: if the first frame read is not a Start message, or the
\* frame read right after Start is not an Input entry, Machine.Start returns
\* ErrUnexpectedMessage without reading on, and the handler is never
\* invoked, the completion router never started, and no frame written.
C16_Negotiation ==
    (FirstNotStart \/ SecondNotInput)
        => /\ pc = "Done"
           /\ result = ErrUnexpectedMessage
           /\ Len(reads) = (IF FirstNotStart THEN 1 ELSE 2)
           /\ ~handlerInvoked
           /\ ~routerStarted
           /\ written = <<>>
           /\ entries = <<>>

\* C16 witness: a Start that announces three known entries was followed by a
\* SetState entry, and the machine returned the error.
C16_Witness ==
    /\ SecondNotInput
    /\ reads[1].msg.KnownEntries = 3
    /\ reads[2].msg.type = "SetStateEntryMessage"
    /\ result = ErrUnexpectedMessage
    /\ pc = "Done"

\* The frames the main task read after the Input entry, in arrival order.
PostInputFrames == [k \in 1..(Len(reads) - 2) |-> reads[k + 2].msg]

\* The completion router has consumed something from the stream: a
\* completion, its end or a transport error.
RouterConsumed == completed # {} \/ suspendCause \in {EOF, TransportErr}

\* C17. Replay phase ordering: for a Start with known-entries N >= 1, when the
\* completion router is started and when the handler is invoked the main
\* task has read exactly N-1 frames after Input, all of them without error,
\* and the replay journal is those N-1 frames in arrival order; until then
\* neither the router runs nor the handler, so the router consumes none of
\* the first N-1 frames after Input.
C17_ReplayPhaseOrdering ==
    /\ (routerStarted \/ handlerInvoked)
          => /\ known >= 1
             /\ Len(reads) = known + 1
             /\ \A k \in DOMAIN reads : reads[k].err = NilErr
             /\ Len(entries) = known - 1
             /\ entries = PostInputFrames
    /\ (pc = "Replay" /\ moreToReplay(entries, known))
          => ~routerStarted /\ ~handlerInvoked
    /\ pc \in {"AwaitStart", "AwaitInput"} => ~routerStarted /\ ~handlerInvoked
    /\ RouterConsumed => routerStarted /\ Len(entries) = known - 1
    /\ handlerInvoked => routerStarted

\* C17 witness: the Start announced three known entries, the two frames read
\* after Input, a OneWayCall and a Call entry, make up the journal in that
\* order, and the handler runs.
C17_Witness ==
    /\ known = 3
    /\ handlerInvoked
    /\ routerStarted
    /\ pc = "Running"
    /\ Len(reads) = 4
    /\ reads[3].msg.type = "OneWayCallEntryMessage"
    /\ reads[4].msg.type = "CallEntryMessage"
    /\ entries = <<reads[3].msg, reads[4].msg>>

\* How many Output frames the SDK has written, and how many Output entries
\* the runtime replayed.
OutputsWritten == Cardinality({k \in DOMAIN written : written[k].type = "OutputEntryMessage"})

OutputsReplayed == Cardinality({k \in DOMAIN entries : entries[k].type = "OutputEntryMessage"})

\* C18. At most one Output: the SDK writes at most one Output frame in a run
\* of an invocation, and none when the replayed journal holds an Output
\* entry; so the journal, replayed and written entries together, holds at
\* most one Output entry unless the runtime itself replayed two.
C18_AtMostOneOutput ==
    /\ OutputsWritten <= 1
    /\ ReplayedOutput => OutputsWritten = 0
    /\ OutputsReplayed <= 1 => OutputsReplayed + OutputsWritten <= 1

\* C18 witness: after one replayed and one new entry the handler returned a
\* value, and the one Output frame and End are written.
C18_Witness ==
    /\ pc = "Done"
    /\ Len(entries) = 1
    /\ nCalls = 2
    /\ mismatches = <<>>
    /\ ending.kind = "return"
    /\ ending.err = NilErr
    /\ OutputsWritten = 1
    /\ written[Len(written)] = EndMessage
    /\ Len(written) = 3

\* C19. Suspension on a transport error: when the handler unwinds with a
\* Suspension whose cause is an error other than the end of the stream, and
\* the outer context is not cancelled, the invocation writes one
\* ErrorMessage with the code of the cause, and no SuspensionMessage, no
\* Output and no End.
C19_SuspensionOnTransportError ==
    (Suspended /\ ending.panic.Err # EOF /\ ~cancelled)
        => /\ TermFrames = <<ErrorMessage(ErrorCode(ending.panic.Err),
                                          "problem reading completions")>>
           /\ FrameTypes(written)
                 \cap {"SuspensionMessage", "OutputEntryMessage", "EndMessage"} = {}

\* C19 witness: the router met a transport error while the handler awaited a
\* call, and the invocation ended with the ErrorMessage of that error.
C19_Witness ==
    /\ pc = "Done"
    /\ Suspended
    /\ ending.panic.Err = TransportErr
    /\ ~cancelled
    /\ Len(written) = 2
    /\ written[1].type = "CallEntryMessage"
    /\ written[2].type = "ErrorMessage"
    /\ written[2].Code = ErrorCode(TransportErr)

\* Goroutine t is inside replayOrNew, between Lock and the deferred Unlock.
InReplayOrNew(t) == tpc[t] \in {"locked", "indexed", "returning", "panicking"}

\* C20. The journal mutex is not held across an await: a goroutine that has
\* returned from replayOrNew - idle, holding a response future, or blocked
\* in Response - does not hold m.entryMutex; whoever holds it is inside
\* replayOrNew; so while one goroutine is blocked in an await the mutex is
\* free or held by another goroutine that is on its way to release it.
C20_MutexNotHeldAcrossAwait ==
    /\ \A t \in Threads : ~InReplayOrNew(t) => holder # t
    /\ holder # NoThread => holder \in Threads /\ InReplayOrNew(holder)
    /\ \A t \in Threads : tpc[t] = "awaiting" => tfut[t] # 0 /\ holder # t

\* C20 witness: the first goroutine is blocked in the await of its Call while
\* the second, having taken the mutex, has been given the next entry index.
C20_Witness ==
    /\ tpc[1] = "awaiting"
    /\ tfut[1] = 1
    /\ holder = 2
    /\ tpc[2] = "indexed"
    /\ tidx[2] = 2

\* C21. A poisoned call has no effect on the journal: a replayOrNew call made
\* while m.failure is set leaves the cursor where it was and writes no
\* frame; so the cursor stays at the entry index the first failure reports,
\* however many calls follow it.
C21_PoisonedCallFrameEffect ==
    /\ (lastCall.n > 0 /\ lastCall.before.failure # Nil)
          => /\ lastCall.branch = "failure"
             /\ lastCall.after.entryIndex = lastCall.before.entryIndex
             /\ lastCall.after.written = lastCall.before.written
             /\ lastCall.after.entries = lastCall.before.entries
    /\ failure # Nil => entryIndex = failure.entryIndex

\* C21 witness: the write of the first new entry failed, the handler caught
\* the failure, and its second and third calls were made on the poisoned
\* machine: the cursor is still 1 and the one frame is that of the first.
C21_Witness ==
    /\ lastCall.n = 3
    /\ lastCall.before.failure # Nil
    /\ failure.kind = "writeError"
    /\ failure.entryIndex = 1
    /\ entryIndex = 1
    /\ Len(written) = 1
    /\ pc = "Raised"

\* C22. The mutex is released on every exit path: a goroutine that holds
\* m.entryMutex releases it, whether its replayOrNew returns or raises - the
\* sticky failure, a tag mismatch, a discriminator mismatch of the replay
\* callback or a write error of the new callback - so the mutex is free again
\* for a later or a concurrent call.
C22_MutexReleasedOnEveryExit ==
    \A t \in Threads :
        /\ (holder = t) ~> (holder = NoThread)
        /\ (tpc[t] = "panicking") ~> (tpc[t] = "idle" /\ holder # t)

\* C22 witness: a failure was raised and stored by one call, and a later
\* call, of the other goroutine, has taken the mutex and is raising the
\* stored failure in its turn.
C22_Witness ==
    /\ failure # Nil
    /\ failure.kind = "entryMismatch"
    /\ holder = 2
    /\ tpc[2] = "panicking"
    /\ tpc[1] = "idle"
    /\ tidx[2] = 0
    /\ nOps = 2

Positions(types) == {k \in DOMAIN written : written[k].type \in types}

\* C24. Terminal-frame discipline: an End frame is written only right after
\* an Output frame written in this run, or when the replayed journal holds
\* an Output entry; an ErrorMessage or a SuspensionMessage is the last frame
\* the invocation writes; and the terminal frames come after every entry
\* frame of the handler.
C24_TerminalFrameDiscipline ==
    /\ \A k \in Positions({"EndMessage"}) :
          \/ k > 1 /\ written[k - 1].type = "OutputEntryMessage"
          \/ ReplayedOutput
    /\ \A k \in Positions({"ErrorMessage", "SuspensionMessage"}) : k = Len(written)
    /\ \A k \in Positions(ResponseTypes) : k > ending.mark /\ ending.kind # "none"

\* C24 witness: the handler made a call and a one-way call and then panicked
\* with a value of its own; the invocation wrote the two entries and one
\* ErrorMessage of code 500, the last frame, and is over.
C24_Witness ==
    /\ pc = "Done"
    /\ ending.kind = "panic"
    /\ ending.panic.kind = "other"
    /\ Len(written) = 3
    /\ written[1].type = "CallEntryMessage"
    /\ written[2].type = "OneWayCallEntryMessage"
    /\ written[3].type = "ErrorMessage"
    /\ written[3].Code = ErrUnknownPanic
    /\ ~connBroken

====
